---- MODULE Spec2Model ----
(***************************************************************************)
(* A model of the torresmo uTP core (src/torresmo.rs) and of the timing    *)
(* utilities (src/src/util.rs).                                            *)
(*                                                                         *)
(* A datagram is the sequence of bytes handed to UdpSocket::sendto, laid   *)
(* out exactly as the packed header struct lies in memory; the host byte   *)
(* order is a property of the build target and is chosen once in Init.     *)
(***************************************************************************)
EXTENDS Integers, Sequences, FiniteSets, TLC

VARIABLES
    littleEndian,   \* TRUE on a little-endian build target
    pc,             \* "bound" | "connected" | "disconnected"
    stream,         \* the UtpStream: connected_to, connection_id, seq_nr, ack_nr
    nwrites,        \* write calls completed on the stream
    nsends,         \* UdpSocket::sendto calls made through the stream
    wire,           \* the last sendto call: bytes, destination, whether it succeeded
    inbox,          \* datagrams queued at the UDP socket, oldest first
    ret,            \* what the last operation returned to its caller
    plan,           \* the number of writes the calling program performs
    fn,             \* pure-function runs: the function applied ("none" before)
    arg,            \* pure-function runs: its input
    out,            \* pure-function runs: its output
    tasks,          \* server: the spawned tasks, in the order they were spawned
    clients,        \* server runs: the client processes, by their address
    rcvd,           \* shared socket: the datagrams each receiver was handed
    arrived         \* shared socket: the number of datagrams that have arrived

vars == <<littleEndian, pc, stream, nwrites, nsends, wire, inbox, ret, plan, fn, arg, out,
          tasks, clients, rcvd, arrived>>

connVars == <<pc, stream, nwrites, nsends, wire, inbox, ret, plan>>
utilVars == <<fn, arg, out>>
srvVars == <<tasks, clients, rcvd, arrived>>

----------------------------------------------------------------------------
(* Bounds *)

MaxWrites == 2          \* writes per connection in Spec
MaxInbox == 1           \* datagrams queued at the socket
MaxLongWrites == 65537  \* writes per connection in SpecLong (past the wrap)

----------------------------------------------------------------------------
(* Program constants *)

ST_DATA == 0
ST_FIN == 1
ST_STATE == 2
ST_RESET == 3
ST_SYN == 4

HEADER_SIZE == 20

BufLen == 512

U8 == 2^8
U16 == 2^16

Min(a, b) == IF a < b THEN a ELSE b

\* Addresses: the peer the client connects to, and some other host.
Peer == "P"
Other == "Q"
Addrs == {Peer, Other}

\* Values std::rand::random() may return for the connection id.
ConnIds == {4660, 255}

\* Clock readings of time::get_time(): whole seconds, sub-second nanoseconds.
\* (kept small enough that the 32-bit casts of lines 147 and 178 do not wrap)
Clocks == {[sec |-> 16, nsec |-> 909060999]}

\* Buffers passed to write.
Bufs == {<< >>, <<0>>, <<7, 255>>}

----------------------------------------------------------------------------
(* Byte order: std::mem::to_be16 / to_be32 and the memory image of an      *)
(* integer on the build target.                                            *)

swap16(x) == (x % U8) * U8 + (x \div U8)

swap32(x) ==
    LET b0 == x % U8
        b1 == (x \div U8) % U8
        b2 == (x \div U16) % U8
        b3 == x \div (U16 * U8)
    IN  ((b0 * U8 + b1) * U8 + b2) * U8 + b3

\* (faulty variant: no conversion to network byte order)
to_be16_id(x) == x

to_be16(x) == IF littleEndian THEN swap16(x) ELSE x

to_be32(x) == IF littleEndian THEN swap32(x) ELSE x

\* the bytes of a u16 / u32 as they lie in memory
mem16(x) ==
    IF littleEndian THEN <<x % U8, x \div U8>> ELSE <<x \div U8, x % U8>>

mem32(x) ==
    LET b0 == x % U8
        b1 == (x \div U8) % U8
        b2 == (x \div U16) % U8
        b3 == x \div (U16 * U8)
    IN  IF littleEndian THEN <<b0, b1, b2, b3>> ELSE <<b3, b2, b1, b0>>

\* (faulty variant: an increment that does not wrap)
add_u16_unbounded(x, y) == x + y

\* `x += 1` on a u16 (this dialect of the language wraps on overflow)

add_u16(x, y) == (x + y) % U16

----------------------------------------------------------------------------
(* UtpPacketHeader and UtpPacket *)

\* transmute of the #[packed] struct to [u8, ..20]: the fields' memory
\* images in declaration order, without padding
UtpPacketHeader_bytes(h) ==
    <<h.type_ver, h.extension>>
        \o mem16(h.connection_id)
        \o mem32(h.timestamp_microseconds)
        \o mem32(h.timestamp_difference_microseconds)
        \o mem32(h.wnd_size)
        \o mem16(h.seq_nr)
        \o mem16(h.ack_nr)

UtpPacketHeader_len(h) == HEADER_SIZE

UtpPacket_new ==
    [header |-> [type_ver |-> ((ST_DATA * 16) % U8) + 1,
                 extension |-> 0,
                 connection_id |-> 0,
                 timestamp_microseconds |-> 0,
                 timestamp_difference_microseconds |-> 0,
                 wnd_size |-> 0,
                 seq_nr |-> 0,
                 ack_nr |-> 0],
     payload |-> << >>]

UtpPacket_set_type(p, t) ==
    LET version == p.header.type_ver % 16
    IN  [p EXCEPT !.header.type_ver = ((t * 16) % U8) + version]

UtpPacket_bytes(p) == UtpPacketHeader_bytes(p.header) \o p.payload

UtpPacket_len(p) == UtpPacketHeader_len(p.header) + Len(p.payload)

\* (t.sec * 1_000_000) as u32 + (t.nsec/1000) as u32
timestamp(clk) == clk.sec * 1000000 + clk.nsec \div 1000

----------------------------------------------------------------------------
(* UtpStream *)

NoStream == [connected_to |-> "none", connection_id |-> 0, seq_nr |-> 0, ack_nr |-> 0]
NoSend == [bytes |-> << >>, dst |-> "none", ok |-> FALSE]
NoRet == [op |-> "none", sockok |-> TRUE, ok |-> TRUE, val |-> 0,
          data |-> << >>, peer |-> "none"]

\* no server, no other receiver on the socket
SrvIdle ==
    /\ tasks = << >>
    /\ clients = << >>
    /\ rcvd = [stream |-> << >>, listener |-> << >>]
    /\ arrived = 0

UtpStream_new(conn, r) ==
    [connected_to |-> conn,
     connection_id |-> to_be16(r),
     seq_nr |-> 1,
     ack_nr |-> 0]

\* (faulty variant: a connect that does not advance seq_nr)
UtpStream_connect_keep(s, clk) ==
    LET p1 == UtpPacket_set_type(UtpPacket_new, ST_SYN)
        hdr == [p1.header EXCEPT
                   !.connection_id = s.connection_id,
                   !.seq_nr = to_be16(s.seq_nr),
                   !.timestamp_microseconds = to_be32(timestamp(clk))]
    IN  [packet |-> [p1 EXCEPT !.header = hdr],
         dst |-> s.connected_to,
         stream |-> s]

\* UtpStream::connect: the SYN packet handed to sendto and the stream returned
UtpStream_connect(s, clk) ==
    LET p1 == UtpPacket_set_type(UtpPacket_new, ST_SYN)
        hdr == [p1.header EXCEPT
                   !.connection_id = s.connection_id,
                   !.seq_nr = to_be16(s.seq_nr),
                   !.timestamp_microseconds = to_be32(timestamp(clk))]
    IN  [packet |-> [p1 EXCEPT !.header = hdr],
         dst |-> s.connected_to,
         stream |-> [s EXCEPT !.seq_nr = add_u16(s.seq_nr, 1)]]

\* (faulty variant: a write that leaves the header's connection_id unset)
UtpStream_write_noid(s, buf, clk) ==
    LET p0 == [UtpPacket_new EXCEPT !.payload = buf]
        hdr == [p0.header EXCEPT
                   !.seq_nr = to_be16(s.seq_nr),
                   !.timestamp_microseconds = to_be32(timestamp(clk))]
    IN  [packet |-> [p0 EXCEPT !.header = hdr],
         dst |-> s.connected_to,
         stream |-> [s EXCEPT !.seq_nr = add_u16(s.seq_nr, 1)]]

\* Writer::write: the DATA packet handed to sendto and the stream afterwards
UtpStream_write(s, buf, clk) ==
    LET p0 == [UtpPacket_new EXCEPT !.payload = buf]
        hdr == [p0.header EXCEPT
                   !.connection_id = s.connection_id,
                   !.seq_nr = to_be16(s.seq_nr),
                   !.timestamp_microseconds = to_be32(timestamp(clk))]
    IN  [packet |-> [p0 EXCEPT !.header = hdr],
         dst |-> s.connected_to,
         stream |-> [s EXCEPT !.seq_nr = add_u16(s.seq_nr, 1)]]

\* Reader::read: the result for the outcome rcv of socket.recvfrom
UtpStream_read(s, rcv) ==
    IF rcv.ok
    THEN IF rcv.src # s.connected_to
         THEN [ok |-> TRUE, val |-> 0]
         ELSE [ok |-> TRUE, val |-> rcv.nread]
    ELSE [ok |-> FALSE, val |-> 0]

----------------------------------------------------------------------------
(* The environment: datagrams other hosts send to the bound socket *)

\* a STATE packet, seq_nr 7, with three bytes of payload, and its prefixes
PeerBytes == <<33, 0, 18, 52, 0, 0, 0, 1, 0, 0, 0, 0, 0, 0, 0, 0, 0, 7, 0, 0, 104, 105, 10>>
InLens == {0, 5, 19, 20, 23}
InDatagrams == {[src |-> a, data |-> SubSeq(PeerBytes, 1, n)] : a \in Addrs, n \in InLens}

EnvDeliver ==
    /\ Len(inbox) < MaxInbox
    /\ \E d \in InDatagrams : inbox' = Append(inbox, d)
    /\ UNCHANGED <<littleEndian, pc, stream, nwrites, nsends, wire, ret, plan>>
    /\ UNCHANGED utilVars
    /\ UNCHANGED srvVars

----------------------------------------------------------------------------
(* Operations on a connection *)

\* (faulty variant: a connect that first waits for a datagram from the peer)
ConnectAwaitReply(addrs, ids, clocks) ==
    /\ pc = "bound"
    /\ inbox # << >>
    /\ \E other \in addrs, r \in ids, clk \in clocks, sent \in BOOLEAN :
         LET c == UtpStream_connect(UtpStream_new(other, r), clk)
         IN  /\ wire' = [bytes |-> UtpPacket_bytes(c.packet), dst |-> c.dst, ok |-> sent]
             /\ nsends' = nsends + 1
             /\ stream' = c.stream
             /\ ret' = [op |-> "connect", sockok |-> sent, ok |-> TRUE, val |-> 0,
                        data |-> << >>, peer |-> other]
    /\ pc' = "connected"
    /\ inbox' = Tail(inbox)
    /\ UNCHANGED <<littleEndian, nwrites, plan>>
    /\ UNCHANGED utilVars
    /\ UNCHANGED srvVars

\* UtpSocket::connect: UtpStream::new followed by UtpStream::connect
Connect(addrs, ids, clocks) ==
    /\ pc = "bound"
    /\ \E other \in addrs, r \in ids, clk \in clocks, sent \in BOOLEAN :
         LET c == UtpStream_connect(UtpStream_new(other, r), clk)
         IN  /\ wire' = [bytes |-> UtpPacket_bytes(c.packet), dst |-> c.dst, ok |-> sent]
             /\ nsends' = nsends + 1
             /\ stream' = c.stream
             /\ ret' = [op |-> "connect", sockok |-> sent, ok |-> TRUE, val |-> 0,
                        data |-> << >>, peer |-> other]
    /\ pc' = "connected"
    /\ UNCHANGED <<littleEndian, nwrites, inbox, plan>>
    /\ UNCHANGED utilVars
    /\ UNCHANGED srvVars

\* (faulty variant: a write that advances seq_nr only when sendto succeeded)
WriteKeepOnError(bufs, clocks, maxw) ==
    /\ pc = "connected"
    /\ nwrites < maxw
    /\ \E buf \in bufs, clk \in clocks, sent \in BOOLEAN :
         LET w == UtpStream_write(stream, buf, clk)
         IN  /\ wire' = [bytes |-> UtpPacket_bytes(w.packet), dst |-> w.dst, ok |-> sent]
             /\ nsends' = nsends + 1
             /\ stream' = IF sent THEN w.stream ELSE stream
             /\ ret' = [op |-> "write", sockok |-> sent, ok |-> sent, val |-> 0,
                        data |-> buf, peer |-> w.dst]
    /\ nwrites' = nwrites + 1
    /\ UNCHANGED <<littleEndian, pc, inbox, plan>>
    /\ UNCHANGED utilVars
    /\ UNCHANGED srvVars

Write(bufs, clocks, maxw) ==
    /\ pc = "connected"
    /\ nwrites < maxw
    /\ \E buf \in bufs, clk \in clocks, sent \in BOOLEAN :
         LET w == UtpStream_write(stream, buf, clk)
         IN  /\ wire' = [bytes |-> UtpPacket_bytes(w.packet), dst |-> w.dst, ok |-> sent]
             /\ nsends' = nsends + 1
             /\ stream' = w.stream
             /\ ret' = [op |-> "write", sockok |-> sent, ok |-> sent, val |-> 0,
                        data |-> buf, peer |-> w.dst]
    /\ nwrites' = nwrites + 1
    /\ UNCHANGED <<littleEndian, pc, inbox, plan>>
    /\ UNCHANGED utilVars
    /\ UNCHANGED srvVars

\* read blocks in recvfrom until a datagram is queued ...
ReadDatagram ==
    /\ pc = "connected"
    /\ inbox # << >>
    /\ LET d == Head(inbox)
           rcv == [ok |-> TRUE, nread |-> Min(Len(d.data), BufLen), src |-> d.src]
           r == UtpStream_read(stream, rcv)
       IN  ret' = [op |-> "read", sockok |-> TRUE, ok |-> r.ok, val |-> r.val,
                   data |-> d.data, peer |-> d.src]
    /\ inbox' = Tail(inbox)
    /\ UNCHANGED <<littleEndian, pc, stream, nwrites, nsends, wire, plan>>
    /\ UNCHANGED utilVars
    /\ UNCHANGED srvVars

\* ... or until the socket reports an error
ReadError ==
    /\ pc = "connected"
    /\ LET r == UtpStream_read(stream, [ok |-> FALSE, nread |-> 0, src |-> "none"])
       IN  ret' = [op |-> "read", sockok |-> FALSE, ok |-> r.ok, val |-> r.val,
                   data |-> << >>, peer |-> "none"]
    /\ UNCHANGED <<littleEndian, pc, stream, nwrites, nsends, wire, inbox, plan>>
    /\ UNCHANGED utilVars
    /\ UNCHANGED srvVars

\* (faulty variant: a disconnect that announces itself with a FIN packet)
DisconnectSendsFin ==
    /\ pc = "connected"
    /\ pc' = "disconnected"
    /\ \E sent \in BOOLEAN :
         LET p1 == UtpPacket_set_type(UtpPacket_new, ST_FIN)
             hdr == [p1.header EXCEPT !.connection_id = stream.connection_id,
                                     !.seq_nr = to_be16(stream.seq_nr)]
         IN  wire' = [bytes |-> UtpPacket_bytes([p1 EXCEPT !.header = hdr]),
                      dst |-> stream.connected_to, ok |-> sent]
    /\ nsends' = nsends + 1
    /\ ret' = [op |-> "disconnect", sockok |-> TRUE, ok |-> TRUE, val |-> 0,
               data |-> << >>, peer |-> "none"]
    /\ UNCHANGED <<littleEndian, stream, nwrites, inbox, plan>>
    /\ UNCHANGED utilVars
    /\ UNCHANGED srvVars

Disconnect ==
    /\ pc = "connected"
    /\ pc' = "disconnected"
    /\ ret' = [op |-> "disconnect", sockok |-> TRUE, ok |-> TRUE, val |-> 0,
               data |-> << >>, peer |-> "none"]
    /\ UNCHANGED <<littleEndian, stream, nwrites, nsends, wire, inbox, plan>>
    /\ UNCHANGED utilVars
    /\ UNCHANGED srvVars

----------------------------------------------------------------------------
(* Specifications of a connection *)

Init ==
    /\ littleEndian \in BOOLEAN
    /\ pc = "bound"
    /\ stream = NoStream
    /\ nwrites = 0
    /\ nsends = 0
    /\ wire = NoSend
    /\ inbox = << >>
    /\ ret = NoRet
    /\ plan = MaxWrites
    /\ fn = "none"
    /\ arg = << >>
    /\ out = << >>
    /\ SrvIdle

Next ==
    \/ Connect(Addrs, ConnIds, Clocks)
    \/ Write(Bufs, Clocks, MaxWrites)
    \/ ReadDatagram
    \/ ReadError
    \/ Disconnect
    \/ EnvDeliver

Spec == Init /\ [][Next]_vars

\* a connection that keeps writing until seq_nr has wrapped
LongBufs == {<<0>>, <<7, 255>>}

NextLong ==
    \/ Connect({Peer}, {4660}, Clocks)
    \/ Write(LongBufs, Clocks, MaxLongWrites)

SpecLong == Init /\ [][NextLong]_vars

----------------------------------------------------------------------------
(* The client program of main: connect, then `plan` writes, then the       *)
(* stream is given up.  It runs synchronously, so whenever its next call   *)
(* can be made it is made (weak fairness of ClientStep); nothing obliges   *)
(* the environment to ever deliver a datagram.                             *)

InitClient ==
    /\ littleEndian \in BOOLEAN
    /\ pc = "bound"
    /\ stream = NoStream
    /\ nwrites = 0
    /\ nsends = 0
    /\ wire = NoSend
    /\ inbox = << >>
    /\ ret = NoRet
    /\ plan \in 0..MaxWrites
    /\ fn = "none"
    /\ arg = << >>
    /\ out = << >>
    /\ SrvIdle

ClientConnect == Connect({Peer}, ConnIds, Clocks)

ClientWrite == Write(Bufs, Clocks, plan)

ClientDrop == nwrites = plan /\ Disconnect

ClientStep == ClientConnect \/ ClientWrite \/ ClientDrop

NextClient == ClientStep \/ EnvDeliver

FairSpec == InitClient /\ [][NextClient]_vars /\ WF_vars(ClientStep)

----------------------------------------------------------------------------
(* Reading a datagram image back *)

\* two bytes read as a big-endian u16
BE16(bs, i) == bs[i] * 256 + bs[i + 1]

\* two bytes read in the byte order of the host
Host16(bs, i) == IF littleEndian THEN bs[i + 1] * 256 + bs[i] ELSE BE16(bs, i)

PacketType(bs) == bs[1] \div 16
PacketVersion(bs) == bs[1] % 16
PacketPayload(bs) == SubSeq(bs, 21, Len(bs))

----------------------------------------------------------------------------
(* C1: every write leaves seq_nr at (seq_nr + 1) mod 65536; the write      *)
(* issued at seq_nr = 65535 leaves 0, the stream stays connected and the   *)
(* write fails only when its sendto failed.                                *)
SeqNrIncrementsModulo ==
    [][nwrites' # nwrites =>
          /\ stream'.seq_nr = (stream.seq_nr + 1) % 65536
          /\ (stream.seq_nr = 65535 => stream'.seq_nr = 0)
          /\ pc' = "connected"
          /\ ret'.op = "write"
          /\ ret'.ok = ret'.sockok]_vars

\* a write was issued at seq_nr = 65535 and left seq_nr = 0
SeqNrWrapped ==
    /\ ret.op = "write"
    /\ pc = "connected"
    /\ stream.seq_nr = 0
    /\ BE16(wire.bytes, 17) = 65535

(* C2: after connect, the k-th write hands exactly one datagram to sendto: *)
(* type DATA, seq_nr (1 + k) mod 65536, payload equal to the buffer        *)
(* written, 20 + payload bytes long, addressed to the remote address.      *)
WriteSendsDataPacket ==
    /\ (pc # "bound" => nsends = nwrites + 1)
    /\ (ret.op = "write" =>
          /\ nwrites >= 1
          /\ Len(wire.bytes) = 20 + Len(ret.data)
          /\ PacketType(wire.bytes) = 0
          /\ PacketVersion(wire.bytes) = 1
          /\ BE16(wire.bytes, 17) = (1 + nwrites) % 65536
          /\ PacketPayload(wire.bytes) = ret.data
          /\ wire.dst = stream.connected_to
          /\ wire.ok = ret.ok)

\* connect followed by write([0]): DATA, seq_nr 2, payload [0]
FirstWriteOfZeroByte ==
    /\ ret.op = "write"
    /\ nwrites = 1
    /\ ret.data = <<0>>
    /\ wire.ok
    /\ wire.bytes[1] = 1
    /\ wire.bytes[17] = 0 /\ wire.bytes[18] = 2
    /\ wire.bytes[21] = 0

(* C3: nothing is sent before connect; connect makes exactly one sendto    *)
(* call: a SYN packet, seq_nr 1, carrying the stream's connection_id       *)
(* field, with no payload, addressed to the remote address; the stream it  *)
(* returns has seq_nr 2 and is connected.                                  *)
ConnectSendsSyn ==
    /\ (pc = "bound" => nsends = 0 /\ wire = NoSend)
    /\ (ret.op = "connect" =>
          /\ nsends = 1
          /\ Len(wire.bytes) = 20
          /\ PacketType(wire.bytes) = 4
          /\ PacketVersion(wire.bytes) = 1
          /\ BE16(wire.bytes, 17) = 1
          /\ Host16(wire.bytes, 3) = stream.connection_id
          /\ PacketPayload(wire.bytes) = << >>
          /\ wire.dst = stream.connected_to
          /\ wire.dst = ret.peer
          /\ stream.seq_nr = 2
          /\ pc = "connected"
          /\ ret.ok)

\* connect has returned and its SYN went out
ConnectReturned ==
    /\ ret.op = "connect"
    /\ wire.ok
    /\ wire.bytes[1] = 65
    /\ stream.connected_to = Peer
    /\ stream.seq_nr = 2

(* C4: a read that received a datagram succeeds; it returns 0 when the     *)
(* datagram's source is not the remote address, and the payload length     *)
(* (datagram length minus the 20-byte header) when it is.                  *)
ReadReturnsPayloadLength ==
    (ret.op = "read" /\ ret.sockok) =>
        /\ ret.ok
        /\ (ret.peer # stream.connected_to => ret.val = 0)
        /\ (ret.peer = stream.connected_to /\ Len(ret.data) >= 20
               => ret.val = Len(ret.data) - 20)

(* C6: a datagram shorter than the 20-byte header that arrives from the    *)
(* remote address makes read fail; it is never a successful read.          *)
ShortDatagramRejected ==
    (ret.op = "read" /\ ret.sockok /\ ret.peer = stream.connected_to
        /\ Len(ret.data) < 20) => ~ret.ok

(* C7: connect, write and read report an error whenever their own socket   *)
(* call failed.                                                            *)
SocketFailureReported ==
    (ret.op \in {"connect", "write", "read"} /\ ~ret.sockok) => ~ret.ok

(* C8: connect and write take nothing from the socket's receive queue, and *)
(* the client program (connect, `plan` writes, drop) runs to its end       *)
(* whether or not a datagram is ever delivered.                            *)
ClientTerminates ==
    /\ [][(pc' # pc \/ nwrites' # nwrites) => inbox' = inbox]_vars
    /\ <>(pc = "disconnected" /\ nwrites = plan)

\* the client has finished its writes and nothing was ever delivered
ClientDoneWithoutReply ==
    /\ pc = "disconnected"
    /\ plan >= 1
    /\ nwrites = plan
    /\ nsends = plan + 1
    /\ inbox = << >>

----------------------------------------------------------------------------
(* The pure functions.  Each has a specification of its own: Init draws    *)
(* the input into arg, the one action applies the function and stores the  *)
(* result in out.                                                          *)

MaxVal == 12        \* abs_diff: operands 0..MaxVal, and the top of the u8 range
MaxSample == 3      \* ewma: samples 0..MaxSample
MaxLen == 3         \* ewma: sample sequences of length 0..MaxLen

ConnIdle ==
    /\ pc = "bound"
    /\ stream = NoStream
    /\ nwrites = 0
    /\ nsends = 0
    /\ wire = NoSend
    /\ inbox = << >>
    /\ ret = NoRet
    /\ plan = 0
    /\ SrvIdle

(* abs_diff, instantiated at u8.  `-` on an unsigned integer whose result  *)
(* would be negative panics in a build with overflow checks and wraps in a *)
(* build without them: sub_u8 gives the set of outcomes.                   *)

sub_u8(x, y) ==
    IF x >= y
    THEN {[panic |-> FALSE, val |-> x - y]}
    ELSE {[panic |-> TRUE, val |-> 0], [panic |-> FALSE, val |-> (x - y) + U8]}

\* (faulty variant: the comparison turned around)
abs_diff_flipped(a, b) == IF a < b THEN sub_u8(a, b) ELSE sub_u8(b, a)

abs_diff(a, b) == IF a > b THEN sub_u8(a, b) ELSE sub_u8(b, a)

AbsDiffOperands == (0..MaxVal) \cup {254, 255}

InitAbsDiff ==
    /\ littleEndian = TRUE
    /\ ConnIdle
    /\ fn = "none"
    /\ arg \in [a : AbsDiffOperands, b : AbsDiffOperands]
    /\ out = << >>

ApplyAbsDiff ==
    /\ fn = "none"
    /\ \E o \in abs_diff(arg.a, arg.b) : out' = o
    /\ fn' = "abs_diff"
    /\ UNCHANGED <<littleEndian, arg>>
    /\ UNCHANGED connVars
    /\ UNCHANGED srvVars

SpecAbsDiff == InitAbsDiff /\ [][ApplyAbsDiff]_vars

(* C9: abs_diff(a, b) is the magnitude |a - b|, is 0 when a = b, equals    *)
(* abs_diff(b, a), and never subtracts a larger value from a smaller one.  *)
AbsDiffIsMagnitude ==
    fn = "abs_diff" =>
        /\ ~out.panic
        /\ out.val >= 0
        /\ (arg.a >= arg.b => arg.b + out.val = arg.a)
        /\ (arg.a <= arg.b => arg.a + out.val = arg.b)
        /\ (arg.a = arg.b => out.val = 0)
        /\ abs_diff(arg.b, arg.a) = {out}

\* abs_diff applied with the smaller operand first
AbsDiffSmallerFirst ==
    /\ fn = "abs_diff"
    /\ arg.a = 3
    /\ arg.b = 255
    /\ out.val = 252

----------------------------------------------------------------------------
(* ewma.  An f64 is modelled by the exact rational it stands for, a record *)
(* [n, d] in lowest terms with d > 0; rounding is not modelled.            *)

TestLen == 10       \* the test feeds the samples 1..10

RECURSIVE GCD(_, _)
GCD(a, b) == IF b = 0 THEN a ELSE GCD(b, a % b)

Rat(n, d) == LET g == GCD(n, d) IN [n |-> n \div g, d |-> d \div g]

RMul(x, y) == Rat(x.n * y.n, x.d * y.d)
RAdd(x, y) == Rat(x.n * y.d + y.n * x.d, x.d * y.d)
ROneMinus(x) == Rat(x.d - x.n, x.d)

to_f64(v) == Rat(v, 1)

\* samples.map(to_f64).fold(first, |avg, sample| alpha * sample + (1.0 - alpha) * avg)
RECURSIVE fold(_, _, _)
fold(samples, avg, alpha) ==
    IF samples = << >>
    THEN avg
    ELSE fold(Tail(samples),
              RAdd(RMul(alpha, to_f64(Head(samples))), RMul(ROneMinus(alpha), avg)),
              alpha)

\* (faulty variant: the average seeded with zero instead of the first sample)
ewma_zero_seed(samples, alpha) == fold(samples, Rat(0, 1), alpha)

\* (faulty variant: an empty input seeds the average with 1.0)
ewma_one_default(samples, alpha) ==
    LET first == IF samples = << >> THEN Rat(1, 1) ELSE to_f64(Head(samples))
        rest == IF samples = << >> THEN << >> ELSE Tail(samples)
    IN  fold(rest, first, alpha)

ewma(samples, alpha) ==
    LET first == IF samples = << >> THEN Rat(0, 1) ELSE to_f64(Head(samples))
        rest == IF samples = << >> THEN << >> ELSE Tail(samples)
    IN  fold(rest, first, alpha)

Alphas == {Rat(1, 3), Rat(1, 2), Rat(2, 3), Rat(1, 1)}

OneTo(k) == [i \in 1..k |-> i]

SampleSeqs ==
    UNION {[1..k -> 0..MaxSample] : k \in 0..MaxLen} \cup {OneTo(k) : k \in 1..TestLen}

InitEwma ==
    /\ littleEndian = TRUE
    /\ ConnIdle
    /\ fn = "none"
    /\ arg \in [samples : SampleSeqs, alpha : Alphas]
    /\ out = << >>

ApplyEwma ==
    /\ fn = "none"
    /\ out' = ewma(arg.samples, arg.alpha)
    /\ fn' = "ewma"
    /\ UNCHANGED <<littleEndian, arg>>
    /\ UNCHANGED connVars
    /\ UNCHANGED srvVars

SpecEwma == InitEwma /\ [][ApplyEwma]_vars

\* The recurrence avg' = alpha*x + (1-alpha)*avg from avg = x1, unrolled:
\*   (1-alpha)^(n-1) x1 + sum over i in 2..n of alpha (1-alpha)^(n-i) xi
RECURSIVE Pow(_, _)
Pow(b, e) == IF e = 0 THEN 1 ELSE b * Pow(b, e - 1)

RECURSIVE LaterTerms(_, _, _, _)
LaterTerms(xs, an, ad, i) ==
    IF i > Len(xs)
    THEN 0
    ELSE an * Pow(ad - an, Len(xs) - i) * Pow(ad, i - 2) * xs[i]
             + LaterTerms(xs, an, ad, i + 1)

Unrolled(xs, alpha) ==
    Rat(Pow(alpha.d - alpha.n, Len(xs) - 1) * xs[1]
            + LaterTerms(xs, alpha.n, alpha.d, 2),
        Pow(alpha.d, Len(xs) - 1))

\* the values the test lists for the prefixes of 1..10 at alpha = 1/3
Expected ==
    <<[n |-> 1, d |-> 1], [n |-> 4, d |-> 3], [n |-> 17, d |-> 9],
      [n |-> 70, d |-> 27], [n |-> 275, d |-> 81], [n |-> 1036, d |-> 243],
      [n |-> 3773, d |-> 729], [n |-> 13378, d |-> 2187],
      [n |-> 46439, d |-> 6561], [n |-> 158488, d |-> 19683]>>

(* C10: on a non-empty sample sequence ewma is the recurrence               *)
(* avg' = alpha*x + (1-alpha)*avg seeded with the first sample and applied *)
(* to the rest in order; ewma([x]) = x; ewma([1..10], 1/3) = 158488/19683. *)
EwmaIsSeededRecurrence ==
    (fn = "ewma" /\ arg.samples # << >>) =>
        /\ out = Unrolled(arg.samples, arg.alpha)
        /\ (Len(arg.samples) = 1 => out = [n |-> arg.samples[1], d |-> 1])
        /\ \A k \in 1..10 :
             (arg.samples = OneTo(k) /\ arg.alpha = [n |-> 1, d |-> 3])
                 => out = Expected[k]

\* ewma applied to 1..10 with alpha = 1/3
EwmaOfOneToTen ==
    /\ fn = "ewma"
    /\ arg.samples = <<1, 2, 3, 4, 5, 6, 7, 8, 9, 10>>
    /\ arg.alpha = [n |-> 1, d |-> 3]
    /\ out = [n |-> 158488, d |-> 19683]

----------------------------------------------------------------------------
(* The packet encoder on arbitrary headers *)

Headers ==
    [type_ver : {t * 16 + 1 : t \in {ST_DATA, ST_FIN, ST_STATE, ST_RESET, ST_SYN}},
     extension : {0},
     connection_id : {0, 4660},
     timestamp_microseconds : {0, 16909060},
     timestamp_difference_microseconds : {0, 5},
     wnd_size : {0, 1024},
     seq_nr : {1, 258},
     ack_nr : {0, 7}]

InitCodec ==
    /\ littleEndian \in BOOLEAN
    /\ ConnIdle
    /\ fn = "none"
    /\ arg \in [header : Headers, payload : Bufs]
    /\ out = << >>

Encode ==
    /\ fn = "none"
    /\ out' = UtpPacket_bytes(arg)
    /\ fn' = "bytes"
    /\ UNCHANGED <<littleEndian, arg>>
    /\ UNCHANGED connVars
    /\ UNCHANGED srvVars

SpecCodec == InitCodec /\ [][Encode]_vars

\* four bytes read as a big-endian u32
BE32(bs, i) == ((bs[i] * 256 + bs[i + 1]) * 256 + bs[i + 2]) * 256 + bs[i + 3]

(* C5: the encoded packet is 20 + payload bytes long, and reading it back  *)
(* by the fixed big-endian offsets gives the header field for field and    *)
(* the payload.                                                            *)
CodecRoundTripBigEndian ==
    fn = "bytes" =>
        /\ Len(out) = 20 + Len(arg.payload)
        /\ PacketType(out) = arg.header.type_ver \div 16
        /\ PacketVersion(out) = arg.header.type_ver % 16
        /\ out[2] = arg.header.extension
        /\ BE16(out, 3) = arg.header.connection_id
        /\ BE32(out, 5) = arg.header.timestamp_microseconds
        /\ BE32(out, 9) = arg.header.timestamp_difference_microseconds
        /\ BE32(out, 13) = arg.header.wnd_size
        /\ BE16(out, 17) = arg.header.seq_nr
        /\ BE16(out, 19) = arg.header.ack_nr
        /\ PacketPayload(out) = arg.payload

----------------------------------------------------------------------------
(* C11: ewma of the empty sample sequence is 0.0, whatever alpha is.       *)
EwmaOfEmptyIsZero ==
    (fn = "ewma" /\ arg.samples = << >>) => out = [n |-> 0, d |-> 1]

\* ewma applied to no samples, with the test's alpha
EwmaOfEmptyVector ==
    /\ fn = "ewma"
    /\ arg.samples = << >>
    /\ arg.alpha = [n |-> 1, d |-> 3]
    /\ out.n = 0

----------------------------------------------------------------------------
(* now_microseconds.  A u64 is eight bytes and a u32 four, least           *)
(* significant byte first, so that no intermediate value outgrows the      *)
(* model checker's integers.                                               *)

u16_bytes(v) == <<v % U8, v \div U8>>

u32_bytes(v) ==
    <<v % U8, (v \div U8) % U8, (v \div U16) % U8, v \div (U16 * U8)>>

\* a u64 from its four 16-bit quarters, least significant first
u64_bytes(q) == u16_bytes(q[1]) \o u16_bytes(q[2]) \o u16_bytes(q[3]) \o u16_bytes(q[4])

\* the sum of the byte products that land in byte k of a product
RECURSIVE Column(_, _, _, _)
Column(a, b, k, i) ==
    IF i > k THEN 0 ELSE a[i] * b[k + 1 - i] + Column(a, b, k, i + 1)

RECURSIVE MulBytes(_, _, _, _)
MulBytes(a, b, k, carry) ==
    IF k > Len(a)
    THEN << >>
    ELSE LET t == Column(a, b, k, 1) + carry
         IN  <<t % U8>> \o MulBytes(a, b, k + 1, t \div U8)

\* u64::wrapping_mul: the low 64 bits of the product
wrapping_mul_u64(a, b) == MulBytes(a, b, 1, 0)

\* `as u32` on a u64: the low 32 bits
as_u32(x) == SubSeq(x, 1, 4)

RECURSIVE AddBytes(_, _, _, _)
AddBytes(a, b, k, carry) ==
    IF k > Len(a)
    THEN << >>
    ELSE LET t == a[k] + b[k] + carry
         IN  <<t % U8>> \o AddBytes(a, b, k + 1, t \div U8)

\* u32::wrapping_add: the low 32 bits of the sum
wrapping_add_u32(a, b) == AddBytes(a, b, 1, 0)

\* whether a + b needs more bits than a and b have
RECURSIVE CarryOut(_, _, _, _)
CarryOut(a, b, k, carry) ==
    IF k > Len(a) THEN carry ELSE CarryOut(a, b, k + 1, (a[k] + b[k] + carry) \div U8)

\* (faulty variant: an addition that saturates instead of wrapping)
now_microseconds_saturating(t) ==
    LET micros == as_u32(wrapping_mul_u64(t.secs, u32_bytes(1000000) \o <<0, 0, 0, 0>>))
        sub == u32_bytes(t.nanos \div 1000)
    IN  IF CarryOut(micros, sub, 1, 0) = 1
        THEN <<255, 255, 255, 255>>
        ELSE wrapping_add_u32(micros, sub)

\* t is the duration between the clock reading and the epoch (of the Ok
\* and of the Err case of duration_since alike)
now_microseconds(t) ==
    LET micros == as_u32(wrapping_mul_u64(t.secs, u32_bytes(1000000) \o <<0, 0, 0, 0>>))
    IN  wrapping_add_u32(micros, u32_bytes(t.nanos \div 1000))

\* whole seconds of a reading, as 16-bit quarters of the u64
SecsLow == {0, 1, 16, 4294, 4295, 61696, 65535}
SecsHigh == {0, 1, 25939, 65535}
SecsQuarters ==
    {<<q1, q2, q3, q4>> : q1 \in SecsLow, q2 \in SecsHigh, q3 \in {0, 1}, q4 \in {0, 32768}}

SubsecNanos == {0, 999, 1000, 123456789, 967296000, 999999999}

InitClock ==
    /\ littleEndian = TRUE
    /\ ConnIdle
    /\ fn = "none"
    /\ arg \in [before_epoch : BOOLEAN, quarters : SecsQuarters, nanos : SubsecNanos]
    /\ out = << >>

ApplyNowMicroseconds ==
    /\ fn = "none"
    /\ out' = now_microseconds([secs |-> u64_bytes(arg.quarters), nanos |-> arg.nanos])
    /\ fn' = "now_microseconds"
    /\ UNCHANGED <<littleEndian, arg>>
    /\ UNCHANGED connVars
    /\ UNCHANGED srvVars

SpecClock == InitClock /\ [][ApplyNowMicroseconds]_vars

\* (s * 1000000 + n div 1000) mod 2^32 as its two 16-bit halves <<high, low>>,
\* from s mod 2^32 = sh * 2^16 + sl and 1000000 = 15 * 2^16 + 16960
MicrosMod32(quarters, nanos) ==
    LET sl == quarters[1]
        sh == quarters[2]
        m == nanos \div 1000
        low == ((sl * 16960) % 65536) + (m % 65536)
        high == (sh * 16960) + (sl * 15) + ((sl * 16960) \div 65536)
                    + (m \div 65536) + (low \div 65536)
    IN  <<high % 65536, low % 65536>>

\* the halves of a u32 given as four bytes
Halves(bs) == <<bs[4] * 256 + bs[3], bs[2] * 256 + bs[1]>>

(* C12: for a reading of s whole seconds and n nanoseconds,                *)
(* now_microseconds is (s * 1000000 + n div 1000) mod 2^32; neither the    *)
(* multiplication nor the addition fails on overflow.                      *)
NowMicrosecondsTruncates ==
    fn = "now_microseconds" =>
        /\ Len(out) = 4
        /\ \A i \in 1..4 : out[i] \in 0..255
        /\ Halves(out) = MicrosMod32(arg.quarters, arg.nanos)
        /\ (arg.quarters = <<4295, 0, 0, 0>> /\ arg.nanos = 0
               => Halves(out) = <<0, 32704>>)
        /\ (arg.quarters = <<1, 0, 0, 0>> /\ arg.nanos = 999999999
               => Halves(out) = <<30, 33919>>)
        /\ (arg.quarters = <<61696, 25939, 0, 0>> /\ arg.nanos = 123456789
               => Halves(out) = <<6176, 8768>>)
        /\ (arg.quarters = <<4294, 0, 0, 0>> /\ arg.nanos = 967296000
               => Halves(out) = <<0, 0>>)
        /\ (arg.quarters = <<0, 0, 0, 32768>> /\ arg.nanos = 999
               => Halves(out) = <<0, 0>>)

\* a reading whose microsecond count is exactly 2^32: the addition wraps to 0
ClockWrapsToZero ==
    /\ fn = "now_microseconds"
    /\ arg.quarters = <<4294, 0, 0, 0>>
    /\ arg.nanos = 967296000
    /\ out = <<0, 0, 0, 0>>

----------------------------------------------------------------------------
(* C13: after a read that accepted a datagram from the remote address,     *)
(* the stream's ack_nr is the seq_nr that datagram carries.                *)
AckNrIsLastReceivedSeqNr ==
    (ret.op = "read" /\ ret.sockok /\ ret.peer = stream.connected_to
        /\ Len(ret.data) >= 20) => stream.ack_nr = BE16(ret.data, 17)

(* C17: a write whose sendto failed returns the error and still leaves     *)
(* seq_nr advanced by one, so the write after a failed one carries the     *)
(* next sequence number, not the failed packet's.                          *)
FailedWriteAdvancesSeqNr ==
    [][nwrites' # nwrites =>
          /\ BE16(wire'.bytes, 17) = stream.seq_nr
          /\ (~ret'.sockok =>
                 /\ ~ret'.ok
                 /\ stream'.seq_nr = (stream.seq_nr + 1) % 65536
                 /\ stream' # stream)
          /\ ((nwrites >= 1 /\ ~wire.ok) =>
                 BE16(wire'.bytes, 17) = (BE16(wire.bytes, 17) + 1) % 65536)]_vars

\* the first write failed in sendto and seq_nr moved from 2 to 3
FailedWriteAdvanced ==
    /\ ret.op = "write"
    /\ ~ret.sockok
    /\ ~ret.ok
    /\ nwrites = 1
    /\ BE16(wire.bytes, 17) = 2
    /\ stream.seq_nr = 3

(* C18: once the stream exists no operation changes its connection_id or   *)
(* its remote address, and the datagram of every sendto call carries that  *)
(* connection_id and goes to that address.                                 *)
ConnectionIdentityFixed ==
    /\ [](pc # "bound" =>
             /\ wire.dst = stream.connected_to
             /\ Host16(wire.bytes, 3) = stream.connection_id)
    /\ [][pc # "bound" =>
             /\ stream'.connection_id = stream.connection_id
             /\ stream'.connected_to = stream.connected_to]_vars

\* the second write of a stream connected to the other host
SecondWriteSameIdentity ==
    /\ ret.op = "write"
    /\ nwrites = 2
    /\ stream.connected_to = Other
    /\ wire.dst = Other
    /\ stream.connection_id # 0
    /\ Host16(wire.bytes, 3) = stream.connection_id

(* C19: every datagram sent has version 1, type SYN (the first) or DATA    *)
(* (the others), extension 0, timestamp difference 0, window size 0 and    *)
(* ack_nr 0; only connect and write send: read and disconnect do not.      *)
OnlySynAndDataSent ==
    /\ [](nsends > 0 =>
             /\ PacketVersion(wire.bytes) = 1
             /\ (nsends = 1 => PacketType(wire.bytes) = 4)
             /\ (nsends > 1 => PacketType(wire.bytes) = 0)
             /\ wire.bytes[2] = 0
             /\ \A i \in 9..16 : wire.bytes[i] = 0
             /\ wire.bytes[19] = 0 /\ wire.bytes[20] = 0)
    /\ [][(nsends' # nsends \/ wire' # wire) => ret'.op \in {"connect", "write"}]_vars

\* the stream was given up after a write and a read; the last datagram is the DATA packet
DisconnectedAfterData ==
    /\ pc = "disconnected"
    /\ nwrites >= 1
    /\ nsends = nwrites + 1
    /\ PacketType(wire.bytes) = 0

----------------------------------------------------------------------------
(* One bound socket with two receivers: the stream made by                 *)
(* UtpSocket::connect on one handle, and a listener calling                *)
(* UtpSocket::recvfrom on a clone of it.  Both handles take datagrams from *)
(* the one queue of the socket.  Datagrams are numbered as they arrive.    *)

MaxArrivals == 3    \* datagrams that arrive at the shared socket

\* (faulty variant: a receive that leaves the datagram in the queue)
recvfrom_peek(q) ==
    [rcv |-> [ok |-> TRUE, nread |-> Min(Len(Head(q).data), BufLen), src |-> Head(q).src],
     datagram |-> Head(q),
     rest |-> q]

\* UdpSocket::recvfrom on a queue q that holds a datagram: the oldest one is
\* handed to the caller and leaves the queue
recvfrom(q) ==
    [rcv |-> [ok |-> TRUE, nread |-> Min(Len(Head(q).data), BufLen), src |-> Head(q).src],
     datagram |-> Head(q),
     rest |-> Tail(q)]

SharedArrive ==
    /\ arrived < MaxArrivals
    /\ \E a \in Addrs, n \in {20, 23} :
         inbox' = Append(inbox, [src |-> a, data |-> SubSeq(PeerBytes, 1, n),
                                 id |-> arrived + 1])
    /\ arrived' = arrived + 1
    /\ UNCHANGED <<littleEndian, pc, stream, nwrites, nsends, wire, ret, plan>>
    /\ UNCHANGED <<tasks, clients, rcvd>>
    /\ UNCHANGED utilVars

SharedConnect == Connect({Peer}, {4660}, Clocks)

\* Reader::read of the stream
StreamRead ==
    /\ pc = "connected"
    /\ inbox # << >>
    /\ LET got == recvfrom(inbox)
           r == UtpStream_read(stream, got.rcv)
       IN  /\ ret' = [op |-> "read", sockok |-> TRUE, ok |-> r.ok, val |-> r.val,
                      data |-> got.datagram.data, peer |-> got.rcv.src]
           /\ rcvd' = [rcvd EXCEPT !.stream = Append(@, got.datagram)]
           /\ inbox' = got.rest
    /\ UNCHANGED <<littleEndian, pc, stream, nwrites, nsends, wire, plan>>
    /\ UNCHANGED <<tasks, clients, arrived>>
    /\ UNCHANGED utilVars

\* UtpSocket::recvfrom on the clone
ListenerRecv ==
    /\ inbox # << >>
    /\ LET got == recvfrom(inbox)
       IN  /\ rcvd' = [rcvd EXCEPT !.listener = Append(@, got.datagram)]
           /\ inbox' = got.rest
    /\ UNCHANGED <<littleEndian, pc, stream, nwrites, nsends, wire, ret, plan>>
    /\ UNCHANGED <<tasks, clients, arrived>>
    /\ UNCHANGED utilVars

NextShared == SharedConnect \/ SharedArrive \/ StreamRead \/ ListenerRecv

SpecShared == Init /\ [][NextShared]_vars

\* the places (queue, stream, listener) that hold datagram number id
Holders(id) ==
    {<<"queue", k>> : k \in {j \in 1..Len(inbox) : inbox[j].id = id}}
        \cup {<<"stream", k>> : k \in {j \in 1..Len(rcvd.stream) : rcvd.stream[j].id = id}}
        \cup {<<"listener", k>> :
                 k \in {j \in 1..Len(rcvd.listener) : rcvd.listener[j].id = id}}

(* C14: every datagram that arrived is in the queue or was handed to       *)
(* exactly one of the two receivers, and what a receiver was handed stays  *)
(* with it: a datagram the listener took is never returned by the          *)
(* stream's read.                                                          *)
EachDatagramToOneReceiver ==
    /\ [](\A id \in 1..arrived : Cardinality(Holders(id)) = 1)
    /\ [][/\ Len(rcvd'.listener) >= Len(rcvd.listener)
          /\ SubSeq(rcvd'.listener, 1, Len(rcvd.listener)) = rcvd.listener
          /\ Len(rcvd'.stream) >= Len(rcvd.stream)
          /\ SubSeq(rcvd'.stream, 1, Len(rcvd.stream)) = rcvd.stream]_vars

\* every datagram has arrived, one of them from the stream's peer, and the
\* listener took them all: nothing is left for the stream to read
PeerDatagramStolen ==
    /\ pc = "connected"
    /\ arrived = MaxArrivals
    /\ inbox = << >>
    /\ rcvd.stream = << >>
    /\ \E k \in 1..Len(rcvd.listener) : rcvd.listener[k].src = stream.connected_to

----------------------------------------------------------------------------
(* The server of main against client processes.  A client is main's client *)
(* branch (bind, connect to the server, write [0], drop), here with 0 to   *)
(* MaxClientWrites writes.  The server loop takes one datagram after the   *)
(* other from its socket and spawns a task for each; a task connects a     *)
(* stream of its own to the datagram's source and writes "Hello\n".        *)

MaxClientWrites == 1    \* writes of a client process
MaxTasks == 2           \* tasks the server spawns

ServerAddr == "S"
ClientAddrs == {"A", "B"}

\* String::from_str("Hello\n").into_bytes()
Hello == <<72, 101, 108, 108, 111, 10>>

InitServer ==
    /\ littleEndian \in BOOLEAN
    /\ pc = "bound"
    /\ stream = NoStream
    /\ nwrites = 0
    /\ nsends = 0
    /\ wire = NoSend
    /\ inbox = << >>
    /\ ret = NoRet
    /\ plan = 0
    /\ fn = "none"
    /\ arg = << >>
    /\ out = << >>
    /\ tasks = << >>
    /\ clients = [c \in ClientAddrs |-> [pc |-> "start", stream |-> NoStream, nwrites |-> 0]]
    /\ rcvd = [stream |-> << >>, listener |-> << >>]
    /\ arrived = 0

serverFrame == <<littleEndian, pc, stream, nwrites, nsends, wire, ret, plan, fn, arg, out,
                 rcvd, arrived>>

\* sock.connect(addr) of client c; the SYN reaches the server if sendto succeeded
ClientProcConnect(c) ==
    /\ clients[c].pc = "start"
    /\ \E clk \in Clocks, sent \in BOOLEAN :
         LET r == UtpStream_connect(UtpStream_new(ServerAddr, 4660), clk)
         IN  /\ clients' = [clients EXCEPT ![c].pc = "connected", ![c].stream = r.stream]
             /\ inbox' = IF sent
                         THEN Append(inbox, [src |-> c, data |-> UtpPacket_bytes(r.packet)])
                         ELSE inbox
    /\ UNCHANGED tasks
    /\ UNCHANGED serverFrame

\* stream.write([0]) of client c
ClientProcWrite(c) ==
    /\ clients[c].pc = "connected"
    /\ clients[c].nwrites < MaxClientWrites
    /\ \E clk \in Clocks, sent \in BOOLEAN :
         LET w == UtpStream_write(clients[c].stream, <<0>>, clk)
         IN  /\ clients' = [clients EXCEPT ![c].stream = w.stream,
                                           ![c].nwrites = @ + 1]
             /\ inbox' = IF sent
                         THEN Append(inbox, [src |-> c, data |-> UtpPacket_bytes(w.packet)])
                         ELSE inbox
    /\ UNCHANGED tasks
    /\ UNCHANGED serverFrame

\* drop(stream) of client c
ClientProcDrop(c) ==
    /\ clients[c].pc = "connected"
    /\ clients' = [clients EXCEPT ![c].pc = "done"]
    /\ UNCHANGED <<tasks, inbox>>
    /\ UNCHANGED serverFrame

\* the loop of main: recvfrom returned Ok((_, src)), a task is spawned for src
ServerRecv ==
    /\ inbox # << >>
    /\ Len(tasks) < MaxTasks
    /\ LET got == recvfrom(inbox)
       IN  /\ tasks' = Append(tasks, [pc |-> "spawned", src |-> got.rcv.src,
                                      stream |-> NoStream, sent |-> << >>])
           /\ inbox' = got.rest
    /\ UNCHANGED clients
    /\ UNCHANGED serverFrame

\* the loop of main: recvfrom returned Err(_), nothing is done
ServerRecvError ==
    /\ UNCHANGED vars

\* (faulty variant: every task works on the stream of the first task)
task_stream_shared(ts, i) == ts[1].stream

\* the stream task i works on: the `stream` local to its proc
task_stream(ts, i) == ts[i].stream

\* task i: let mut stream = sock.connect(src); whether sendto succeeded makes
\* no difference to the task (connect drops the result)
TaskConnect(i) ==
    /\ tasks[i].pc = "spawned"
    /\ \E r \in ConnIds, clk \in Clocks :
         LET c == UtpStream_connect(UtpStream_new(tasks[i].src, r), clk)
         IN  tasks' = [tasks EXCEPT
                          ![i].pc = "connected",
                          ![i].stream = c.stream,
                          ![i].sent = Append(@, [bytes |-> UtpPacket_bytes(c.packet),
                                                 dst |-> c.dst])]
    /\ UNCHANGED <<clients, inbox>>
    /\ UNCHANGED serverFrame

\* task i: let _ = stream.write(payload.as_slice()), and the task ends; the
\* result of write is dropped
TaskWrite(i) ==
    /\ tasks[i].pc = "connected"
    /\ \E clk \in Clocks :
         LET w == UtpStream_write(task_stream(tasks, i), Hello, clk)
         IN  tasks' = [tasks EXCEPT
                          ![i].pc = "done",
                          ![i].stream = w.stream,
                          ![i].sent = Append(@, [bytes |-> UtpPacket_bytes(w.packet),
                                                 dst |-> w.dst])]
    /\ UNCHANGED <<clients, inbox>>
    /\ UNCHANGED serverFrame

NextServer ==
    \/ \E c \in ClientAddrs : ClientProcConnect(c)
    \/ \E c \in ClientAddrs : ClientProcWrite(c)
    \/ \E c \in ClientAddrs : ClientProcDrop(c)
    \/ ServerRecv
    \/ ServerRecvError
    \/ \E i \in 1..Len(tasks) : TaskConnect(i)
    \/ \E i \in 1..Len(tasks) : TaskWrite(i)

SpecServer == InitServer /\ [][NextServer]_vars

\* the sendto calls a task has made are the first n of: SYN seq_nr 1, then
\* DATA seq_nr 2 with "Hello\n", both to the source of the task's datagram
TaskSentSoFar(t, n) ==
    /\ Len(t.sent) = n
    /\ (n >= 1 =>
          /\ PacketType(t.sent[1].bytes) = 4
          /\ BE16(t.sent[1].bytes, 17) = 1
          /\ PacketPayload(t.sent[1].bytes) = << >>
          /\ t.sent[1].dst = t.src)
    /\ (n >= 2 =>
          /\ PacketType(t.sent[2].bytes) = 0
          /\ BE16(t.sent[2].bytes, 17) = 2
          /\ PacketPayload(t.sent[2].bytes) = <<72, 101, 108, 108, 111, 10>>
          /\ t.sent[2].dst = t.src)
    /\ \A k \in 1..n : Host16(t.sent[k].bytes, 3) = t.stream.connection_id

(* C15: under every interleaving each task sends SYN with seq_nr 1 and     *)
(* then DATA with seq_nr 2 to its own remote address, and a step that      *)
(* changes the stream of one task is a send of that task and changes no    *)
(* other task's stream.                                                    *)
TasksOwnTheirCounters ==
    /\ [](\A i \in 1..Len(tasks) :
             /\ (tasks[i].pc = "spawned" => TaskSentSoFar(tasks[i], 0))
             /\ (tasks[i].pc = "connected" =>
                    TaskSentSoFar(tasks[i], 1) /\ tasks[i].stream.seq_nr = 2)
             /\ (tasks[i].pc = "done" =>
                    TaskSentSoFar(tasks[i], 2) /\ tasks[i].stream.seq_nr = 3))
    /\ [][\A i \in 1..Len(tasks) :
             tasks'[i].stream # tasks[i].stream =>
                 /\ Len(tasks'[i].sent) = Len(tasks[i].sent) + 1
                 /\ \A j \in 1..Len(tasks) : j # i => tasks'[j] = tasks[j]]_vars

\* the second task has finished while the first, for another client, has
\* only connected
SecondTaskOvertook ==
    /\ Len(tasks) >= 2
    /\ tasks[1].pc = "connected"
    /\ tasks[2].pc = "done"
    /\ tasks[1].src # tasks[2].src
    /\ tasks[1].stream.seq_nr = 2
    /\ tasks[2].stream.seq_nr = 3

(* C16: the server has spawned no more tasks than there are client         *)
(* connections (one task per connection, however many datagrams it sent).  *)
OneTaskPerConnection ==
    Len(tasks) <= Cardinality({c \in ClientAddrs : clients[c].pc # "start"})

====
